---- MODULE Spec2Model ----
(***************************************************************************)
(* A model of the dataflow decode / package pipeline:                      *)
(*   batch_decode_dataflows.py   decode_dataflow_definition,               *)
(*                               extract_metadata_from_filename,           *)
(*                               batch_decode_directory                    *)
(*   create_pqt_from_workspace.py  create_pqtzip_structure,                *)
(*                               create_pqt_archive, process_workspace     *)
(*                                                                         *)
(* Strings the code takes apart (file names, part paths) are sequences of  *)
(* atoms, e.g. "sub/extra.pq" is <<"sub", "/", "extra", ".pq">>, so that   *)
(* split, endswith and path joining are computed, not looked up.  The      *)
(* filesystem is a function from locations (sequences of path components)  *)
(* to file contents, plus the set of directories.                          *)
(***************************************************************************)
EXTENDS Integers, Sequences, FiniteSets, TLC

VARIABLES
    fs,             \* files: location -> content
    dirs,           \* directories: set of locations
    dpc,            \* decode_dataflow_definition: position in the function
    definition,     \* decode_dataflow_definition: the parts read from input_file
    decoded_parts,  \* decode_dataflow_definition: the output sequence
    log,            \* decode_dataflow_definition: one entry per part handled
    pc,             \* batch_decode_directory: position in the function
    json_files,     \* batch_decode_directory: the glob result, in listing order
    idx,            \* batch_decode_directory: 1-based index of the file in turn
    success_count,  \* batch_decode_directory
    error_count,    \* batch_decode_directory
    run,            \* number of batch_decode_directory calls started
    history,        \* per call: what it found, did and printed
    cpc,            \* process_workspace: position in the function
    output_path,    \* process_workspace
    copied_items,   \* process_workspace
    ci,             \* process_workspace: index into copied_items of the loop in turn
    pqt_success_count,  \* process_workspace
    moved_items,    \* process_workspace
    failed_moves,   \* process_workspace
    original_mappings,  \* process_workspace
    env,            \* per item name: how the filesystem answers its move
    report,         \* process_workspace: what it printed and returned
    mpc,            \* main: position in the function
    mode,           \* main: "decode", "convert" or "all"
    overall_success,    \* main
    exit_status     \* main: the argument of sys.exit, None while running

dvars == <<dpc, definition, decoded_parts, log>>
brest == <<pc, json_files, idx, error_count, run, history>>
bvars == <<brest, success_count>>
cvars == <<cpc, output_path, copied_items, ci, pqt_success_count, moved_items,
           failed_moves, original_mappings, env, report>>
mvars == <<mpc, mode, overall_success, exit_status>>
vars == <<fs, dirs, dvars, bvars, cvars, mvars>>

(***************************************************************************)
(* Bounds of the model.                                                    *)
(***************************************************************************)
MaxParts == 2
MaxFiles == 2
MaxRuns == 2
MaxItems == 2
MaxTokens == 5

(***************************************************************************)
(* Sequences of atoms.                                                     *)
(***************************************************************************)
Last(s) == s[Len(s)]

Range(s) == {s[i] : i \in DOMAIN s}

SeqsUpTo(S, n) == UNION {[1..m -> S] : m \in 0..n}

\* str.endswith(suffix) for a one-atom suffix
EndsWith(s, suffix) == Len(s) > 0 /\ Last(s) = suffix

\* str.split(sep) for a one-atom separator
RECURSIVE SplitOn(_, _)
SplitOn(s, sep) ==
    IF \A i \in DOMAIN s : s[i] # sep
    THEN <<s>>
    ELSE LET i == CHOOSE j \in DOMAIN s :
                      s[j] = sep /\ \A h \in 1..(j - 1) : s[h] # sep
         IN  <<SubSeq(s, 1, i - 1)>> \o SplitOn(SubSeq(s, i + 1, Len(s)), sep)

(***************************************************************************)
(* Paths.  A location is a sequence of components below the root; a        *)
(* component is a sequence of atoms.                                       *)
(***************************************************************************)
Parent(loc) == SubSeq(loc, 1, Len(loc) - 1)

\* what opening dir/comps[1]/comps[2]/... resolves to
RECURSIVE Walk(_, _)
Walk(dir, comps) ==
    IF comps = <<>> THEN dir
    ELSE LET c == Head(comps)
         IN  Walk(IF c = <<"..">> THEN Parent(dir)
                  ELSE IF c = <<>> \/ c = <<".">> THEN dir
                  ELSE Append(dir, c),
                  Tail(comps))

\* os.path.join(output_dir, path), as the operating system resolves it
PathJoin(output_dir, path) ==
    IF Len(path) > 0 /\ path[1] = "/"
    THEN Walk(<<>>, SplitOn(path, "/"))
    ELSE Walk(output_dir, SplitOn(path, "/"))

\* loc lies inside directory dir
Under(loc, dir) == Len(loc) > Len(dir) /\ SubSeq(loc, 1, Len(dir)) = dir

(***************************************************************************)
(* The filesystem.                                                         *)
(***************************************************************************)
Exists(f, d, loc) == loc \in DOMAIN f \/ loc \in d

\* open(loc, 'w') succeeds: the parent is a directory and loc is not one
CanWrite(f, d, loc) == Len(loc) > 0 /\ Parent(loc) \in d /\ loc \notin d

WriteFile(f, loc, content) == (loc :> content) @@ f

RemoveFile(f, loc) == [l \in DOMAIN f \ {loc} |-> f[l]]

\* f.write(text)
TextFile(text) == [kind |-> "text", text |-> text]

\* json.dump(value, f, indent=2) of a whole document
JsonFile(value) == [kind |-> "json", value |-> value]

(***************************************************************************)
(* Payloads: base64, UTF-8 and JSON over a small alphabet of real values.  *)
(***************************************************************************)
None == "None"

Ok(v) == [ok |-> TRUE, val |-> v]
Err == [ok |-> FALSE, val |-> ""]

\* base64.b64decode(payload)
B64Decode(payload) ==
    CASE payload = "bGV0IHggPSAx" -> Ok("b'let x = 1'")
      [] payload = "eyJhIjoxfQ==" -> Ok("b'{\"a\":1}'")
      [] payload = "//4="         -> Ok("b'\\xff\\xfe'")
      [] OTHER                    -> Err        \* "abc": incorrect padding

\* bytes.decode('utf-8')
Utf8Decode(bytes) ==
    CASE bytes = "b'let x = 1'"  -> Ok("let x = 1")
      [] bytes = "b'{\"a\":1}'"  -> Ok("{\"a\":1}")
      [] OTHER                   -> Err         \* 0xff 0xfe is not UTF-8

\* json.loads(text): the value, written as Python prints it
JsonLoads(text) ==
    CASE text = "{\"a\":1}"           -> Ok("{'a': 1}")
      [] text = "{\n  \"a\": 1\n}"    -> Ok("{'a': 1}")
      [] text = "[]"                  -> Ok("[]")
      [] OTHER                        -> Err

\* json.dumps(value, indent=2, ensure_ascii=False)
JsonDumps(value) ==
    CASE value = "{'a': 1}" -> "{\n  \"a\": 1\n}"
      [] value = "[]"       -> "[]"
      [] OTHER              -> "null"

\* json.load(f) of a file
JsonLoad(content) ==
    CASE content.kind = "json" -> Ok(content.value)
      [] content.kind = "text" -> JsonLoads(content.text)
      [] OTHER                 -> Err

Payloads ==
    { None, "", "abc", "//4=", "bGV0IHggPSAx", "eyJhIjoxfQ==" }

Paths ==
    { <<"mashup", ".pq">>,
      <<"queryMetadata", ".json">>,
      <<"sub", "/", "extra", ".pq">>,
      <<"..", "/", "item_mapping", ".txt">> }

PartDomain ==
    { [path |-> p, payload |-> q, payloadType |-> "InlineBase64"] :
          p \in Paths, q \in Payloads }
    \cup
    { [path |-> p, payload |-> "bGV0IHggPSAx", payloadType |-> "InlineJson"] :
          p \in Paths }

(***************************************************************************)
(* decode_dataflow_definition(input_file, output_dir)                      *)
(***************************************************************************)
IsDecodeCandidateAnyType(payload_type, payload) == payload \notin {None, ""}

\* `payload_type == 'InlineBase64' and payload`
IsDecodeCandidate(payload_type, payload) ==
    payload_type = "InlineBase64" /\ payload \notin {None, ""}

\* decoded_parts.append({'path': ..., 'payload': ..., 'payloadType': ...})
OnDecoded(parts, path, decoded_payload, new_payload_type) ==
    Append(parts, [path |-> path, payload |-> decoded_payload,
                   payloadType |-> new_payload_type])

OnDecodeErrorSkip(parts, part) == parts

OnDecodeErrorBlank(parts, part) == Append(parts, [part EXCEPT !.payload = None])

\* except Exception: print(...); decoded_parts.append(part)
OnDecodeError(parts, part) == Append(parts, part)

\* else: decoded_parts.append(part)
OnPassThrough(parts, part) == Append(parts, part)

\* One iteration of `for part in ...parts`.  st = [fs, dirs, decoded_parts, log].
DecodePart(part, output_dir, st) ==
    LET path         == part.path
        payload      == part.payload
        payload_type == part.payloadType
        output_file  == PathJoin(output_dir, path)
        decoded_bytes == B64Decode(payload)
        decoded_text  == Utf8Decode(decoded_bytes.val)
        parsed        == JsonLoads(decoded_text.val)
        writable      == CanWrite(st.fs, st.dirs, output_file)
        failed  == [st EXCEPT
                      !.decoded_parts = OnDecodeError(@, part),
                      !.log = Append(@, [event |-> "error", file |-> <<>>])]
    IN  IF IsDecodeCandidate(payload_type, payload)
        THEN IF ~decoded_bytes.ok THEN failed
             ELSE IF ~decoded_text.ok THEN failed
             ELSE IF EndsWith(path, ".json")
             THEN IF ~parsed.ok THEN failed
                  ELSE IF ~writable THEN failed
                  ELSE [st EXCEPT
                          !.fs = WriteFile(@, output_file,
                                           TextFile(JsonDumps(parsed.val))),
                          !.decoded_parts =
                              OnDecoded(@, path, parsed.val, "DecodedJSON"),
                          !.log = Append(@, [event |-> "decoded",
                                             file |-> output_file])]
             ELSE IF ~writable THEN failed
                  ELSE [st EXCEPT
                          !.fs = WriteFile(@, output_file,
                                           TextFile(decoded_text.val)),
                          !.decoded_parts =
                              OnDecoded(@, path, decoded_text.val, "DecodedText"),
                          !.log = Append(@, [event |-> "decoded",
                                             file |-> output_file])]
        ELSE [st EXCEPT
                !.decoded_parts = OnPassThrough(@, part),
                !.log = Append(@, [event |-> "passthrough", file |-> <<>>])]

\* lines 29-39: read input_file, create output_dir, take definition.parts.
\* Result: the parts, or the point at which the call raised.
OpenDefinition(input_file, output_dir, f, d) ==
    LET loaded == IF input_file \in DOMAIN f THEN JsonLoad(f[input_file]) ELSE Err
        made   == output_dir \notin DOMAIN f /\ Parent(output_dir) \in d
    IN  IF ~loaded.ok THEN [ok |-> FALSE, dirs |-> d, parts |-> <<>>]
        ELSE IF ~made THEN [ok |-> FALSE, dirs |-> d, parts |-> <<>>]
        ELSE IF f[input_file].kind = "json"
             THEN [ok |-> TRUE, dirs |-> d \cup {output_dir},
                   parts |-> loaded.val.definition.parts]
        ELSE IF loaded.val = "{'a': 1}"         \* a dict without 'definition'
             THEN [ok |-> TRUE, dirs |-> d \cup {output_dir}, parts |-> <<>>]
        ELSE [ok |-> FALSE, dirs |-> d \cup {output_dir}, parts |-> <<>>]

DefinitionDecoded == <<"definition_decoded", ".json">>

\* lines 82-98: write definition_decoded.json, copy the source file beside it.
SaveDefinition(input_file, output_dir, st) ==
    LET decoded_definition == [definition |-> [parts |-> st.decoded_parts]]
        output_file == Append(output_dir, DefinitionDecoded)
        moved_file  == Append(output_dir, Last(input_file))
        written     == WriteFile(st.fs, output_file, JsonFile(decoded_definition))
    IN  IF ~CanWrite(st.fs, st.dirs, output_file) THEN [ok |-> FALSE, fs |-> st.fs]
        ELSE IF input_file \notin DOMAIN written
                \/ ~CanWrite(written, st.dirs, moved_file)
             THEN [ok |-> FALSE, fs |-> written]
        ELSE [ok |-> TRUE, fs |-> WriteFile(written, moved_file, written[input_file])]

(***************************************************************************)
(* One call of decode_dataflow_definition, part by part.                   *)
(***************************************************************************)
SrcDir == << <<"src">> >>

ItemMapping == <<"item_mapping", ".txt">>

InputName == <<"WS", "__", "w1", "__", "i1", "__", "Sales", "__", "Dataflow", ".json">>

InputFile == Append(SrcDir, InputName)

OutputDir == Append(SrcDir, <<"item_", "0", "0", "1">>)

Definitions == { JsonFile([definition |-> [parts |-> ps]]) :
                     ps \in SeqsUpTo(PartDomain, MaxParts) }

BadSources == { TextFile("not json"), TextFile("[]"), TextFile("{\"a\":1}") }

DecodeDirs == { {<<>>, SrcDir},
                {<<>>, SrcDir, OutputDir},
                {<<>>, SrcDir, OutputDir, Append(OutputDir, <<"sub">>)} }

MainIdle ==
    /\ mpc = "unused"
    /\ mode = "none"
    /\ overall_success = TRUE
    /\ exit_status = "None"

ConvertIdle ==
    /\ cpc = "unused"
    /\ output_path = <<>>
    /\ copied_items = <<>>
    /\ ci = 0
    /\ pqt_success_count = 0
    /\ moved_items = <<>>
    /\ failed_moves = <<>>
    /\ original_mappings = <<>>
    /\ env = <<>>
    /\ report = <<>>

BatchIdle ==
    /\ pc = "unused"
    /\ json_files = <<>>
    /\ idx = 0
    /\ success_count = 0
    /\ error_count = 0
    /\ run = 0
    /\ history = <<>>

InitDecode ==
    /\ \E c \in Definitions \cup BadSources : fs = (InputFile :> c)
    /\ dirs \in DecodeDirs
    /\ BatchIdle
    /\ ConvertIdle
    /\ MainIdle
    /\ dpc = "start"
    /\ definition = <<>>
    /\ decoded_parts = <<>>
    /\ log = <<>>

Open ==
    /\ dpc = "start"
    /\ LET r == OpenDefinition(InputFile, OutputDir, fs, dirs)
       IN  /\ dirs' = r.dirs
           /\ definition' = r.parts
           /\ dpc' = IF r.ok THEN "parts" ELSE "raised"
    /\ UNCHANGED <<fs, decoded_parts, log, bvars, cvars, mvars>>

DecodeNextPart ==
    /\ dpc = "parts"
    /\ Len(log) < Len(definition)
    /\ LET st == DecodePart(definition[Len(log) + 1], OutputDir,
                            [fs |-> fs, dirs |-> dirs,
                             decoded_parts |-> decoded_parts, log |-> log])
       IN  /\ fs' = st.fs
           /\ decoded_parts' = st.decoded_parts
           /\ log' = st.log
    /\ UNCHANGED <<dirs, dpc, definition, bvars, cvars, mvars>>

Save ==
    /\ dpc = "parts"
    /\ Len(log) = Len(definition)
    /\ LET r == SaveDefinition(InputFile, OutputDir,
                               [fs |-> fs, dirs |-> dirs,
                                decoded_parts |-> decoded_parts, log |-> log])
       IN  /\ fs' = r.fs
           /\ dpc' = IF r.ok THEN "returned" ELSE "raised"
    /\ UNCHANGED <<dirs, definition, decoded_parts, log, bvars, cvars, mvars>>

NextDecode == Open \/ DecodeNextPart \/ Save

SpecDecode == InitDecode /\ [][NextDecode]_vars

(***************************************************************************)
(* Claims about decode_dataflow_definition (checked under SpecDecode).     *)
(***************************************************************************)
\* the part most recently handled by the loop
Handled(i) == dpc = "parts" /\ i = Len(log) /\ i >= 1

\* the payload is base64 of UTF-8 text
IsEncodedText(part) ==
    /\ part.payloadType = "InlineBase64"
    /\ part.payload \notin {None, ""}
    /\ B64Decode(part.payload).ok
    /\ Utf8Decode(B64Decode(part.payload).val).ok

TextOf(part) == Utf8Decode(B64Decode(part.payload).val).val

\* base64, UTF-8 or (under a .json path) JSON decoding of the payload fails
FailsToDecode(part) ==
    /\ part.payloadType = "InlineBase64"
    /\ part.payload \notin {None, ""}
    /\ \/ ~IsEncodedText(part)
       \/ EndsWith(part.path, ".json") /\ ~JsonLoads(TextOf(part)).ok

\* C1: a returned decode has exactly as many output parts as the input has
\* parts, entry i carries the path of input part i, and the document written
\* to definition_decoded.json is that same sequence; while the loop runs the
\* output is a path-preserving prefix.
C1_PartSequencePreserved ==
    /\ Len(decoded_parts) = Len(log)
    /\ Len(decoded_parts) <= Len(definition)
    /\ \A i \in 1..Len(decoded_parts) : decoded_parts[i].path = definition[i].path
    /\ dpc = "returned" =>
         /\ Len(decoded_parts) = Len(definition)
         /\ Append(OutputDir, DefinitionDecoded) \in DOMAIN fs
         /\ fs[Append(OutputDir, DefinitionDecoded)]
              = JsonFile([definition |-> [parts |-> decoded_parts]])

C1_Witness ==
    /\ dpc = "returned"
    /\ Len(definition) >= 2
    /\ \E i, j \in 1..Len(log) :
          /\ log[i].event = "decoded"
          /\ log[j].event \in {"error", "passthrough"}

\* C2: a part whose payload fails to decode makes the call raise nothing:
\* the original part stands at its index in the output, the loop goes on to
\* the later parts (a step is always enabled until the function returns) and
\* the call ends by writing definition_decoded.json.
C2_DecodeFailureIsLocal ==
    /\ \A i \in 1..Len(log) :
          FailsToDecode(definition[i]) =>
             /\ i <= Len(decoded_parts)
             /\ decoded_parts[i] = definition[i]
    /\ dpc = "raised" => log = <<>>
    /\ dpc = "parts" => ENABLED NextDecode
    /\ dpc = "returned" =>
          /\ Len(log) = Len(definition)
          /\ Append(OutputDir, DefinitionDecoded) \in DOMAIN fs

C2_Witness ==
    /\ dpc = "returned"
    /\ \E i, j \in 1..Len(log) :
          /\ i < j
          /\ FailsToDecode(definition[i])
          /\ EndsWith(definition[i].path, ".json")
          /\ IsEncodedText(definition[i])
          /\ log[j].event = "decoded"

\* C3: handling a part whose payloadType is not InlineBase64, or whose
\* payload is empty or null, appends the part itself to the output and
\* changes no file.
C3_PassThroughUnchanged ==
    [][ (/\ dpc = "parts"
         /\ Len(log) < Len(definition)
         /\ LET part == definition[Len(log) + 1]
            IN  \/ part.payloadType # "InlineBase64"
                \/ part.payload \in {None, ""})
        => (/\ decoded_parts' = Append(decoded_parts, definition[Len(log) + 1])
            /\ fs' = fs
            /\ dirs' = dirs) ]_vars

C3_Witness ==
    /\ dpc = "returned"
    /\ \E i, j \in 1..Len(log) :
          /\ definition[i].payloadType # "InlineBase64"
          /\ definition[j].payloadType = "InlineBase64"
          /\ definition[j].payload \in {None, ""}
          /\ decoded_parts[i] = definition[i]
          /\ decoded_parts[j] = definition[j]

\* C4: an InlineBase64 part whose payload is base64 of UTF-8 text (of JSON
\* text when the path ends with .json) comes out as DecodedJSON with the file
\* at output_dir/path parsing back to the embedded payload, or as DecodedText
\* with the file holding exactly the decoded text.
C4_DecodedAndWritten ==
    \A i \in 1..Len(log) :
        (Handled(i) /\ IsEncodedText(definition[i]) /\ ~FailsToDecode(definition[i]))
        => LET part == definition[i]
               out  == decoded_parts[i]
               file == PathJoin(OutputDir, part.path)
           IN  /\ file \in DOMAIN fs
               /\ fs[file].kind = "text"
               /\ IF EndsWith(part.path, ".json")
                  THEN /\ out.payloadType = "DecodedJSON"
                       /\ JsonLoads(fs[file].text) = Ok(out.payload)
                  ELSE /\ out.payloadType = "DecodedText"
                       /\ out.payload = TextOf(part)
                       /\ fs[file].text = TextOf(part)

\* C5: a decodable part whose path has a subdirectory missing under the
\* output directory gets the directory created and is written, decoded, at
\* output_dir/path.
C5_ParentDirectoriesCreated ==
    \A i \in 1..Len(log) :
        (/\ Handled(i)
         /\ IsEncodedText(definition[i])
         /\ ~FailsToDecode(definition[i])
         /\ Under(Parent(PathJoin(OutputDir, definition[i].path)), OutputDir))
        => /\ PathJoin(OutputDir, definition[i].path) \in DOMAIN fs
           /\ decoded_parts[i].payloadType \in {"DecodedJSON", "DecodedText"}

\* C6: no decoded part is written outside the item's output directory.
C6_NothingWrittenOutside ==
    \A loc \in DOMAIN fs : loc = InputFile \/ Under(loc, OutputDir)

(***************************************************************************)
(* decode_dataflow_definition as one call (lines 21-98).                   *)
(***************************************************************************)
RECURSIVE DecodeParts(_, _, _)
DecodeParts(parts, output_dir, st) ==
    IF parts = <<>> THEN st
    ELSE DecodeParts(Tail(parts), output_dir, DecodePart(Head(parts), output_dir, st))

DecodeDefinition(input_file, output_dir, f, d) ==
    LET opened == OpenDefinition(input_file, output_dir, f, d)
        st     == DecodeParts(opened.parts, output_dir,
                              [fs |-> f, dirs |-> opened.dirs,
                               decoded_parts |-> <<>>, log |-> <<>>])
        saved  == SaveDefinition(input_file, output_dir, st)
    IN  IF ~opened.ok
        THEN [ok |-> FALSE, fs |-> f, dirs |-> opened.dirs, log |-> <<>>]
        ELSE [ok |-> saved.ok, fs |-> saved.fs, dirs |-> opened.dirs, log |-> st.log]

(***************************************************************************)
(* extract_metadata_from_filename(filename)                                *)
(***************************************************************************)
\* str.replace(atom, '')
RECURSIVE RemoveAll(_, _)
RemoveAll(s, atom) ==
    IF s = <<>> THEN <<>>
    ELSE IF Head(s) = atom THEN RemoveAll(Tail(s), atom)
    ELSE <<Head(s)>> \o RemoveAll(Tail(s), atom)

NoMetadata == [parsed |-> FALSE]

extract_metadata_from_filename(filename) ==
    LET name_parts == RemoveAll(filename, ".json")
        parts      == SplitOn(name_parts, "__")
    IN  IF Len(parts) >= 5 /\ parts[1] = <<"WS">>
        THEN [parsed |-> TRUE, workspace_id |-> parts[2], item_id |-> parts[3],
              name |-> parts[4], type |-> parts[5]]
        ELSE NoMetadata

(***************************************************************************)
(* batch_decode_directory(source_dir)                                      *)
(***************************************************************************)
DigitChars == <<"0", "1", "2", "3", "4", "5", "6", "7", "8", "9">>

RECURSIVE Digits(_)
Digits(n) ==
    IF n < 10 THEN <<DigitChars[n + 1]>>
    ELSE Append(Digits(n \div 10), DigitChars[(n % 10) + 1])

\* f"{idx:03d}"
Pad3(n) ==
    LET ds == Digits(n)
    IN  IF Len(ds) >= 3 THEN ds
        ELSE [i \in 1..(3 - Len(ds)) |-> "0"] \o ds

\* f"item_{idx:03d}"
ItemDirName(n) == <<"item_">> \o Pad3(n)

\* the line written to item_mapping.txt for one decoded file (lines 182-185)
MappingLine(n, name) ==
    LET metadata == extract_metadata_from_filename(name)
    IN  IF metadata.parsed
        THEN [form |-> "rich", item |-> ItemDirName(n),
              workspace_id |-> metadata.workspace_id, item_id |-> metadata.item_id,
              name |-> metadata.name, type |-> metadata.type, file |-> name]
        ELSE [form |-> "legacy", item |-> ItemDirName(n), file |-> name]

\* A file of lines; lead is text that precedes the first line on its row
\* (something else wrote the file, without a final newline, before the append).
LinesFile(lead, lines) == [kind |-> "lines", lead |-> lead, lines |-> lines]

\* with open(mapping_file, 'a') as f: f.write(line)
AppendLine(f, loc, line) ==
    IF loc \notin DOMAIN f THEN WriteFile(f, loc, LinesFile("", <<line>>))
    ELSE IF f[loc].kind = "lines"
         THEN WriteFile(f, loc, LinesFile(f[loc].lead, Append(f[loc].lines, line)))
    ELSE IF f[loc].kind = "text"
         THEN WriteFile(f, loc, LinesFile(f[loc].text, <<line>>))
    ELSE WriteFile(f, loc, LinesFile("<json>", <<line>>))

UnlinkSourceKeep(f, json_file) == f

\* json_file.unlink()
UnlinkSource(f, json_file) == RemoveFile(f, json_file)

\* source_path.glob("*.json"): the names, in any listing order
GlobJson(f, d, dir) ==
    { Last(loc) : loc \in { l \in DOMAIN f \cup d :
                              Len(l) = Len(dir) + 1 /\ Parent(l) = dir
                              /\ EndsWith(Last(l), ".json") } }

Orderings(S) ==
    { q \in [1..Cardinality(S) -> S] : \A i, j \in DOMAIN q : i # j => q[i] # q[j] }

NamePool ==
    { <<"WS", "__", "w1", "__", "i1", "__", "Sales", "__", "Dataflow", ".json">>,
      <<"WS", "__", "w2", "__", "i2", "__", "Ops", "__", "Dataflow", ".json">>,
      <<"WS", "__", "a", "__", "b", ".json">>,
      <<"random", ".json">> }

TextPart(path) == [path |-> path, payload |-> "bGV0IHggPSAx", payloadType |-> "InlineBase64"]

JsonPart(path) == [path |-> path, payload |-> "eyJhIjoxfQ==", payloadType |-> "InlineBase64"]

Document(parts) == JsonFile([definition |-> [parts |-> parts]])

BatchContents ==
    { TextFile("not json"),
      TextFile("[]"),
      Document(<< TextPart(<<"mashup", ".pq">>), JsonPart(<<"queryMetadata", ".json">>) >>),
      Document(<< [path |-> <<"mashup", ".pq">>, payload |-> "abc",
                   payloadType |-> "InlineBase64"],
                  [path |-> <<".platform">>, payload |-> "eyJhIjoxfQ==",
                   payloadType |-> "InlineJson"] >>),
      Document(<< TextPart(<<"..", "/", "item_mapping", ".txt">>) >>),
      Document(<< JsonPart(<<"..", "/", "WS", "__", "w1", "__", "i1", "__", "Sales",
                             "__", "Dataflow", ".json">>) >>) }

Absent == [kind |-> "absent"]

ContentAt(f, loc) == IF loc \in DOMAIN f THEN f[loc] ELSE Absent

InitBatch ==
    /\ \/ /\ dirs = {<<>>, SrcDir}
          /\ \E names \in SUBSET NamePool :
                /\ Cardinality(names) <= MaxFiles
                /\ \E c \in [names -> BatchContents] :
                      fs = [loc \in {Append(SrcDir, n) : n \in names} |-> c[Last(loc)]]
       \/ /\ dirs = {<<>>}
          /\ fs = <<>>
    /\ pc = "idle"
    /\ json_files = <<>>
    /\ idx = 0
    /\ success_count = 0
    /\ error_count = 0
    /\ run = 0
    /\ history = <<>>
    /\ dpc = "unused"
    /\ definition = <<>>
    /\ decoded_parts = <<>>
    /\ log = <<>>
    /\ ConvertIdle
    /\ MainIdle

\* lines 141-161: the existence check, the glob and the empty check
StartRun ==
    /\ pc \in {"idle", "done"}
    /\ run < MaxRuns
    /\ run' = run + 1
    /\ success_count' = 0
    /\ error_count' = 0
    /\ idx' = 1
    /\ IF SrcDir \notin dirs
       THEN /\ json_files' = <<>>
            /\ pc' = "done"
            /\ history' = Append(history,
                  [top |-> {}, mapping |-> Absent, outcomes |-> <<>>,
                   escaped |-> {}, returned |-> FALSE])
       ELSE \E listing \in Orderings(GlobJson(fs, dirs, SrcDir)) :
            /\ json_files' = listing
            /\ pc' = IF listing = <<>> THEN "done" ELSE "loop"
            /\ history' = Append(history,
                  [top |-> Range(listing),
                   mapping |-> ContentAt(fs, Append(SrcDir, ItemMapping)),
                   outcomes |-> <<>>, escaped |-> {}, returned |-> FALSE])
    /\ UNCHANGED <<fs, dirs, dvars, cvars, mvars>>

\* lines 163-196: one iteration of the loop over json_files
ProcessFile ==
    /\ pc = "loop"
    /\ idx <= Len(json_files)
    /\ LET name         == json_files[idx]
           json_file    == Append(SrcDir, name)
           output_dir   == Append(SrcDir, ItemDirName(idx))
           mapping_file == Append(SrcDir, ItemMapping)
           decoded      == DecodeDefinition(json_file, output_dir, fs, dirs)
           mapped       == AppendLine(decoded.fs, mapping_file, MappingLine(idx, name))
           succeeded    == /\ decoded.ok
                           /\ mapping_file \notin decoded.dirs
                           /\ json_file \in DOMAIN mapped
           outside      == { e.file : e \in { x \in Range(decoded.log) :
                                 x.event = "decoded" /\ ~Under(x.file, output_dir) } }
       IN  /\ dirs' = decoded.dirs
           /\ fs' = IF succeeded THEN UnlinkSource(mapped, json_file)
                    ELSE IF decoded.ok /\ mapping_file \notin decoded.dirs THEN mapped
                    ELSE decoded.fs
           /\ success_count' = IF succeeded THEN success_count + 1 ELSE success_count
           /\ error_count' = IF succeeded THEN error_count ELSE error_count + 1
           /\ history' = [history EXCEPT
                 ![run].outcomes = Append(@, [file |-> name, item |-> ItemDirName(idx),
                                              ok |-> succeeded]),
                 ![run].escaped = @ \cup outside]
    /\ idx' = idx + 1
    /\ UNCHANGED <<pc, json_files, run, dvars, cvars, mvars>>

\* lines 198-206: the tally and `return success_count > 0`
EndRun ==
    /\ pc = "loop"
    /\ idx > Len(json_files)
    /\ pc' = "done"
    /\ history' = [history EXCEPT ![run].returned = success_count > 0]
    /\ UNCHANGED <<fs, dirs, json_files, idx, success_count, error_count, run, dvars, cvars, mvars>>

NextBatch == StartRun \/ ProcessFile \/ EndRun

SpecBatch == InitBatch /\ [][NextBatch]_vars

(***************************************************************************)
(* Claims about batch_decode_directory (checked under SpecBatch).          *)
(***************************************************************************)
Mapping == ContentAt(fs, Append(SrcDir, ItemMapping))

\* every line of a mapping file
AllLines(c) == IF c.kind = "lines" THEN c.lines ELSE <<>>

\* the lines that stand on a row of their own
ProperLines(c) ==
    IF c.kind # "lines" THEN <<>>
    ELSE IF c.lead = "" THEN c.lines
    ELSE Tail(c.lines)

LinesForFile(c, name) ==
    Cardinality({ k \in DOMAIN AllLines(c) : AllLines(c)[k].file = name })

Recorded(r) == { o.file : o \in { x \in Range(history[r].outcomes) : x.ok } }

\* C7: after the first run over a directory without item_mapping.txt, every
\* file was handled; a file counted as a success has its item_NNN directory
\* with definition_decoded.json and a copy of the source, exactly one mapping
\* line for that item, and is gone from the top level; a file counted as a
\* failure is still at the top level and has no mapping line; the number of
\* mapping lines equals the number of successes.
C7_BatchBookkeeping ==
    (run = 1 /\ pc = "done" /\ SrcDir \in dirs) =>
        LET outs  == history[1].outcomes
            lines == AllLines(Mapping)
        IN  /\ Len(outs) = Len(json_files)
            /\ \A i \in DOMAIN outs :
                 LET name == json_files[i]
                     item == Append(SrcDir, ItemDirName(i))
                 IN  IF outs[i].ok
                     THEN /\ Append(item, DefinitionDecoded) \in DOMAIN fs
                          /\ Append(item, name) \in DOMAIN fs
                          /\ Cardinality({ k \in DOMAIN lines :
                                             lines[k].item = ItemDirName(i) }) = 1
                          /\ Append(SrcDir, name) \notin DOMAIN fs
                     ELSE /\ Append(SrcDir, name) \in DOMAIN fs
                          /\ \A k \in DOMAIN lines : lines[k].file # name
            /\ Len(lines) = success_count

\* C8 as stated: after a second run the mapping file holds a duplicate line
\* for every file the first run recorded.
C8_SecondRunDuplicates ==
    (run = 2 /\ pc = "done") =>
        \A name \in Recorded(1) : LinesForFile(Mapping, name) >= 2

\* C8 as amended: the run after a run appends no line for a file that run
\* recorded, because the file was deleted; the one exception is a name put
\* back at the top level by a part path that escapes the item directory.
\* When nothing is left to enumerate the run returns false and leaves
\* item_mapping.txt as it was.
C8_SecondRunSkipsRecorded ==
    run >= 2 =>
        LET first  == history[run - 1]
            second == history[run]
        IN  /\ \A name \in Recorded(run - 1) :
                 \/ Append(SrcDir, name) \in first.escaped
                 \/ /\ name \notin second.top
                    /\ \A o \in Range(second.outcomes) : o.file # name
                    /\ LinesForFile(Mapping, name) <= LinesForFile(second.mapping, name)
            /\ second.top = {} =>
                 /\ pc = "done"
                 /\ ~second.returned
                 /\ Mapping = second.mapping

C8_Witness ==
    /\ run = 2
    /\ pc = "done"
    /\ Recorded(1) # {}
    /\ \E o \in Range(history[1].outcomes) : ~o.ok
    /\ history[2].outcomes # <<>>
    /\ history[1].escaped = {}
    /\ \A name \in Recorded(1) : LinesForFile(Mapping, name) = 1

(***************************************************************************)
(* create_pqt_from_workspace.py: directory trees                           *)
(***************************************************************************)
IsFile(f, loc) == loc \in DOMAIN f

\* the place under dst of something that lies under src
Rebase(loc, src, dst) == dst \o SubSeq(loc, Len(src) + 1, Len(loc))

\* shutil.copytree(src, dst): the files
CopyTreeFiles(f, src, dst) ==
    LET inside == { x \in DOMAIN f : Under(x, src) }
        copies == { Rebase(x, src, dst) : x \in inside }
    IN  [l \in DOMAIN f \cup copies |->
            IF l \in copies
            THEN f[CHOOSE x \in inside : Rebase(x, src, dst) = l]
            ELSE f[l]]

\* shutil.copytree(src, dst): the directories
CopyTreeDirs(d, src, dst) ==
    d \cup { Rebase(x, src, dst) : x \in { y \in d : y = src \/ Under(y, src) } }

\* shutil.rmtree(loc): the files
RemoveTreeFiles(f, loc) == [l \in { x \in DOMAIN f : ~Under(x, loc) } |-> f[l]]

\* shutil.rmtree(loc): the directories
RemoveTreeDirs(d, loc) == { x \in d : x # loc /\ ~Under(x, loc) }

\* the names of the regular files directly in dir
FilesIn(f, dir) ==
    { Last(l) : l \in { x \in DOMAIN f : Len(x) = Len(dir) + 1 /\ Parent(x) = dir } }

(***************************************************************************)
(* The members of a template and what they are derived from.               *)
(***************************************************************************)
MashupPq == <<"mashup", ".pq">>
QueryMetadataJson == <<"queryMetadata", ".json">>
DotPlatform == <<".platform">>
Pqtzip == <<"pqtzip">>
MashupDocumentPq == <<"MashupDocument", ".pq">>
MashupMetadataJson == <<"MashupMetadata", ".json">>
MetadataJson == <<"Metadata", ".json">>
ContentTypesXml == <<"[Content_Types]", ".xml">>
WithDataflows == <<"with_dataflows">>

\* queryMetadata.json as the decoder's json.dump leaves it
QueryMetadataGood == "{\n  \"queriesMetadata\": {\n    \"Query1\": {\n      \"isHidden\": true\n    }\n  }\n}"
QueryMetadataList == "{\n  \"queriesMetadata\": []\n}"

\* .platform as the decoder's f.write leaves it
PlatformGood == "{\"config\":{\"displayName\":\"Sales\"}}"

\* json.load(f) of the files a template is derived from
LoadJson(content) ==
    IF content.kind = "text" /\ content.text = QueryMetadataGood
    THEN Ok("{'queriesMetadata': {'Query1': {'isHidden': True}}}")
    ELSE IF content.kind = "text" /\ content.text = QueryMetadataList
    THEN Ok("{'queriesMetadata': []}")
    ELSE IF content.kind = "text" /\ content.text = PlatformGood
    THEN Ok("{'config': {'displayName': 'Sales'}}")
    ELSE JsonLoad(content)

\* create_mashup_metadata(query_metadata_path); Err when it raises
create_mashup_metadata(f, query_metadata_path) ==
    LET query_metadata ==
            IF IsFile(f, query_metadata_path) THEN LoadJson(f[query_metadata_path]) ELSE Err
    IN  IF ~query_metadata.ok THEN Err
        ELSE IF query_metadata.val = "{'queriesMetadata': {'Query1': {'isHidden': True}}}"
        THEN Ok([Version |-> "1.0.0.0",
                 QueriesMetadata |-> << [Name |-> "Query1", IsHidden |-> TRUE] >>])
        ELSE IF query_metadata.val \in {"{'a': 1}", "[]"}
        THEN Ok([Version |-> "1.0.0.0", QueriesMetadata |-> <<>>])
        ELSE Err        \* 'list' object has no attribute 'items'

\* create_metadata(platform_path); Err when it raises
create_metadata(f, platform_path) ==
    LET platform_data ==
            IF IsFile(f, platform_path) THEN LoadJson(f[platform_path]) ELSE Err
        description == ""
    IN  IF ~platform_data.ok THEN Err
        ELSE IF platform_data.val = "{'config': {'displayName': 'Sales'}}"
        THEN Ok([Name |-> "Sales", Description |-> description, Version |-> "1.0.0.0"])
        ELSE IF platform_data.val = "{'a': 1}"
        THEN Ok([Name |-> "Dataflow", Description |-> description, Version |-> "1.0.0.0"])
        ELSE Err        \* 'list' object has no attribute 'get'

\* create_content_types_xml()
create_content_types_xml ==
    TextFile("<Types><Default Extension=\"json\"/><Default Extension=\"pq\"/></Types>")

(***************************************************************************)
(* create_pqtzip_structure(item_dir)                                       *)
(***************************************************************************)
StructureResult(raised, ok, f, d) == [raised |-> raised, ok |-> ok, fs |-> f, dirs |-> d]

create_pqtzip_structure(item_dir, f, d) ==
    LET pqtzip_dir          == Append(item_dir, Pqtzip)
        mashup_src          == Append(item_dir, MashupPq)
        mashup_dest         == Append(pqtzip_dir, MashupDocumentPq)
        query_metadata_path == Append(item_dir, QueryMetadataJson)
        mashup_metadata_path == Append(pqtzip_dir, MashupMetadataJson)
        platform_path       == Append(item_dir, DotPlatform)
        metadata_path       == Append(pqtzip_dir, MetadataJson)
        content_types_path  == Append(pqtzip_dir, ContentTypesXml)
        \* pqtzip_dir.mkdir(exist_ok=True)
        d1 == d \cup {pqtzip_dir}
        \* shutil.copy2(mashup_src, mashup_dest)
        f1 == WriteFile(f, mashup_dest, f[mashup_src])
        mashup_metadata == create_mashup_metadata(f1, query_metadata_path)
        f2 == IF Exists(f1, d1, query_metadata_path)
              THEN WriteFile(f1, mashup_metadata_path, JsonFile(mashup_metadata.val))
              ELSE f1
        metadata == create_metadata(f2, platform_path)
        f3 == IF Exists(f2, d1, platform_path)
              THEN WriteFile(f2, metadata_path, JsonFile(metadata.val))
              ELSE f2
        f4 == WriteFile(f3, content_types_path, create_content_types_xml)
    IN  IF IsFile(f, pqtzip_dir) \/ item_dir \notin d
        THEN StructureResult(TRUE, FALSE, f, d)      \* mkdir raises, outside the try
        ELSE IF ~IsFile(f, mashup_src) \/ ~CanWrite(f, d1, mashup_dest)
        THEN StructureResult(FALSE, FALSE, f, d1)
        ELSE IF Exists(f1, d1, query_metadata_path)
                /\ (~mashup_metadata.ok \/ ~CanWrite(f1, d1, mashup_metadata_path))
        THEN StructureResult(FALSE, FALSE, f1, d1)
        ELSE IF Exists(f2, d1, platform_path)
                /\ (~metadata.ok \/ ~CanWrite(f2, d1, metadata_path))
        THEN StructureResult(FALSE, FALSE, f2, d1)
        ELSE IF ~CanWrite(f3, d1, content_types_path)
        THEN StructureResult(FALSE, FALSE, f3, d1)
        ELSE StructureResult(FALSE, TRUE, f4, d1)

(***************************************************************************)
(* create_pqt_archive(item_dir)                                            *)
(***************************************************************************)
PqtName(item_name) == Append(item_name, ".pqt")

\* a ZIP file: its member names, flat, each with the bytes of the staged file
ZipFile(members) == [kind |-> "zip", members |-> members]

ArchiveResult(ok, f) == [ok |-> ok, fs |-> f]

\* zip_error: the filesystem refuses to create the archive file
create_pqt_archive(item_dir, f, d, zip_error) ==
    LET pqtzip_dir == Append(item_dir, Pqtzip)
        pqt_file   == Append(item_dir, PqtName(Last(item_dir)))
        staged     == FilesIn(f, pqtzip_dir)
        members    == [name \in staged |-> f[Append(pqtzip_dir, name)]]
    IN  IF ~Exists(f, d, pqtzip_dir)
        THEN ArchiveResult(FALSE, f)
        ELSE IF zip_error \/ ~CanWrite(f, d, pqt_file)
        THEN ArchiveResult(FALSE, f)                 \* zipfile.ZipFile(pqt_file, 'w') raises
        ELSE IF pqtzip_dir \notin d
        THEN ArchiveResult(FALSE, WriteFile(f, pqt_file, ZipFile(<<>>)))   \* iterdir raises
        ELSE ArchiveResult(TRUE, WriteFile(f, pqt_file, ZipFile(members)))

(***************************************************************************)
(* find_dataflow_items, read_item_mapping, create_output_mapping           *)
(***************************************************************************)
\* a < b for item names that differ in their digits only
NameBefore(a, b) ==
    \E i \in 1..Len(a) :
        /\ i <= Len(b)
        /\ SubSeq(a, 1, i - 1) = SubSeq(b, 1, i - 1)
        /\ \E x, y \in DOMAIN DigitChars :
              a[i] = DigitChars[x] /\ b[i] = DigitChars[y] /\ x < y

\* sorted(...) of a set of locations in one directory
SortedByName(S) ==
    IF S = {} THEN <<>>
    ELSE CHOOSE q \in Orderings(S) :
            \A i, j \in DOMAIN q : i < j => NameBefore(Last(q[i]), Last(q[j]))

\* find_dataflow_items(workspace_path)
find_dataflow_items(f, d, workspace_path) ==
    SortedByName({ item \in d :
                     /\ Len(item) = Len(workspace_path) + 1
                     /\ Parent(item) = workspace_path
                     /\ Last(item)[1] = "item_"
                     /\ Exists(f, d, Append(item, MashupPq)) })

\* the dict built from the lines that hold ' -> '
RECURSIVE MappingsOf(_, _)
MappingsOf(lines, mappings) ==
    IF lines = <<>> THEN mappings
    ELSE MappingsOf(Tail(lines),
                    IF Head(lines).form = "legacy"
                    THEN (Head(lines).item :> Head(lines).file) @@ mappings
                    ELSE mappings)

\* read_item_mapping(workspace_path)
read_item_mapping(f, workspace_path) ==
    LET mapping_file == Append(workspace_path, ItemMapping)
    IN  IF ~IsFile(f, mapping_file) \/ f[mapping_file].kind # "lines"
        THEN <<>>
        ELSE LET lines == f[mapping_file].lines
                 lead  == f[mapping_file].lead
                 first == IF lead = "" \/ lines = <<>> THEN lines
                          ELSE <<[lines[1] EXCEPT !.item = <<lead>> \o @]>> \o Tail(lines)
             IN  MappingsOf(first, <<>>)

\* item_dir.glob("WS__*.json")
GlobWS(f, item_dir) ==
    { name \in FilesIn(f, item_dir) :
        Len(name) >= 3 /\ name[1] = "WS" /\ name[2] = "__" /\ Last(name) = ".json" }

\* the line create_output_mapping writes for one item, given ws_files[0]
OutputLine(item_dir, ws_files, first, mappings) ==
    LET item_id == Last(item_dir)
        parts   == SplitOn(SubSeq(first, 1, Len(first) - 1), "__")
        workspace_file == IF item_id \in DOMAIN mappings THEN mappings[item_id]
                          ELSE <<"Unknown">>
    IN  IF ws_files # {} /\ Len(parts) >= 5
        THEN [form |-> "rich", item |-> item_id, workspace_id |-> parts[2],
              item_id |-> parts[3], name |-> parts[4], type |-> parts[5],
              file |-> first]
        ELSE [form |-> "legacy", item |-> item_id, file |-> workspace_file]

\* create_output_mapping(dataflow_items, original_mappings, output_path);
\* glob order decides ws_files[0], here the choice of the caller
create_output_mapping(dataflow_items, mappings, out, f, d, pick) ==
    LET mapping_file == Append(out, ItemMapping)
        items == SortedByName(Range(dataflow_items))
        lines == [i \in DOMAIN items |->
                    LET ws_files == GlobWS(f, items[i])
                    IN  OutputLine(items[i], ws_files,
                                   IF ws_files = {} THEN <<>> ELSE pick[items[i]],
                                   mappings)]
    IN  IF CanWrite(f, d, mapping_file)
        THEN WriteFile(f, mapping_file, LinesFile("", lines))
        ELSE f

(***************************************************************************)
(* process_workspace(source_workspace, output_directory)                   *)
(***************************************************************************)
max_retries == 3

\* retry_delay = 0.5, in milliseconds
retry_delay == 500

OutDir == << <<"out">> >>

\* copy_dataflow_items(dataflow_items, output_path), when not in place
RECURSIVE CopyItems(_, _, _, _)
CopyItems(items, out, f, d) ==
    IF items = <<>> THEN [fs |-> f, dirs |-> d]
    ELSE LET item_dir == Head(items)
             dest_dir == Append(out, Last(item_dir))
         IN  IF Exists(f, d, dest_dir)
             THEN CopyItems(Tail(items), out, f, d)
             ELSE CopyItems(Tail(items), out,
                            CopyTreeFiles(f, item_dir, dest_dir),
                            CopyTreeDirs(d, item_dir, dest_dir))

\* the retry loop of lines 324-349 for one item: attempt counts from 0, e says
\* how many attempts meet a PermissionError and whether another error is met
RECURSIVE TryMove(_, _, _, _)
TryMove(attempt, delay, e, slept) ==
    IF e.move_error
    THEN [moved |-> FALSE, slept |-> slept, attempts |-> attempt + 1]
    ELSE IF attempt < e.locks
    THEN IF attempt < max_retries - 1
         THEN TryMove(attempt + 1, delay * 2, e, Append(slept, delay))
         ELSE [moved |-> FALSE, slept |-> slept, attempts |-> attempt + 1]
    ELSE [moved |-> TRUE, slept |-> slept, attempts |-> attempt + 1]

\* the choices of ws_files[0] that glob order allows, one per item
Picks(f, items) ==
    { p \in [Range(items) -> UNION { GlobWS(f, i) : i \in Range(items) } \cup {<<>>}] :
        \A i \in Range(items) :
            IF GlobWS(f, i) = {} THEN p[i] = <<>> ELSE p[i] \in GlobWS(f, i) }

(***************************************************************************)
(* The workspaces process_workspace is run on.                             *)
(***************************************************************************)
ItemProfile(mashup, qm, platform, staging, pqt, locks, move_error) ==
    [mashup |-> mashup, qm |-> qm, platform |-> platform, staging |-> staging,
     pqt |-> pqt, locks |-> locks, move_error |-> move_error]

ItemProfiles ==
    { ItemProfile("file", qm, platform, "none", "none", 0, FALSE) :
          qm \in {"none", "good", "bad"}, platform \in {"none", "good", "bad"} }
    \cup
    { ItemProfile("file", "none", "none", "stale", "none", 0, FALSE),
      ItemProfile("file", "good", "good", "file", "none", 0, FALSE),
      ItemProfile("file", "good", "good", "none", "dir", 0, FALSE),
      ItemProfile("file", "good", "good", "none", "denied", 0, FALSE),
      ItemProfile("dir", "good", "good", "none", "none", 0, FALSE),
      ItemProfile("none", "none", "good", "none", "none", 0, FALSE),
      ItemProfile("file", "good", "good", "none", "none", 0, TRUE) }
    \cup
    { ItemProfile("file", "good", "good", "none", "none", locks, FALSE) :
          locks \in 1..max_retries }

SourceNames ==
    << <<"WS", "__", "w1", "__", "i1", "__", "Sales", "__", "Dataflow", ".json">>,
       <<"random", ".json">>,
       <<"WS", "__", "a", "__", "b", ".json">> >>

ItemSource(n) == SourceNames[((n - 1) % Len(SourceNames)) + 1]

Opt(cond, loc, content) == IF cond THEN (loc :> content) ELSE <<>>

\* the files of one decoded item directory
ItemFiles(item_dir, n, p) ==
    LET pqtzip_dir == Append(item_dir, Pqtzip)
    IN  (Append(item_dir, ItemSource(n)) :> Document(<<>>))
        @@ (Append(item_dir, DefinitionDecoded) :> Document(<<>>))
        @@ Opt(p.mashup = "file", Append(item_dir, MashupPq), TextFile("let x = 1"))
        @@ Opt(p.qm = "good", Append(item_dir, QueryMetadataJson), TextFile(QueryMetadataGood))
        @@ Opt(p.qm = "bad", Append(item_dir, QueryMetadataJson), TextFile(QueryMetadataList))
        @@ Opt(p.platform = "good", Append(item_dir, DotPlatform), TextFile(PlatformGood))
        @@ Opt(p.platform = "bad", Append(item_dir, DotPlatform), TextFile("let x = 1"))
        @@ Opt(p.staging = "stale", Append(pqtzip_dir, MashupMetadataJson),
               JsonFile([Version |-> "1.0.0.0", QueriesMetadata |-> <<>>]))
        @@ Opt(p.staging = "stale", Append(pqtzip_dir, MashupDocumentPq), TextFile("let x = 0"))
        @@ Opt(p.staging = "file", pqtzip_dir, TextFile("let x = 1"))

\* the directories of one decoded item directory
ItemDirs(item_dir, p) ==
    {item_dir}
    \cup (IF p.mashup = "dir" THEN {Append(item_dir, MashupPq)} ELSE {})
    \cup (IF p.staging = "stale" THEN {Append(item_dir, Pqtzip)} ELSE {})
    \cup (IF p.pqt = "dir" THEN {Append(item_dir, PqtName(Last(item_dir)))} ELSE {})

RECURSIVE WorkspaceFiles(_, _)
WorkspaceFiles(n, profiles) ==
    IF n = 0
    THEN IF profiles = <<>> THEN <<>>
         ELSE (Append(SrcDir, ItemMapping) :>
                  LinesFile("", [i \in DOMAIN profiles |-> MappingLine(i, ItemSource(i))]))
    ELSE ItemFiles(Append(SrcDir, ItemDirName(n)), n, profiles[n])
         @@ WorkspaceFiles(n - 1, profiles)

WorkspaceDirs(profiles) ==
    {<<>>, SrcDir}
    \cup UNION { ItemDirs(Append(SrcDir, ItemDirName(n)), profiles[n]) : n \in DOMAIN profiles }

NoReport ==
    [structure_ok |-> {}, archive_ok |-> {}, moves |-> <<>>, raised |-> FALSE,
     returned |-> None]

\* a file the earlier run decoded into item_001
PriorSource == <<"WS", "__", "w2", "__", "i2", "__", "Ops", "__", "Dataflow", ".json">>

\* with_dataflows/item_001 as an earlier run over the same output left it
PriorFiles(out) ==
    LET with_dataflows_path == Append(out, WithDataflows)
        item_dir            == Append(with_dataflows_path, ItemDirName(1))
    IN  (Append(with_dataflows_path, ItemMapping) :>
             LinesFile("", <<MappingLine(1, PriorSource)>>))
        @@ (Append(item_dir, PriorSource) :> Document(<<>>))
        @@ (Append(item_dir, MashupPq) :> TextFile("let x = 0"))
        @@ (Append(item_dir, PqtName(ItemDirName(1))) :>
               ZipFile((MashupDocumentPq :> TextFile("let x = 0"))
                       @@ (ContentTypesXml :> create_content_types_xml)))

PriorDirs(out) ==
    {out, Append(out, WithDataflows), Append(Append(out, WithDataflows), ItemDirName(1))}

\* the workspaces that are also tried with an earlier run's with_dataflows
PriorOptions(profiles) ==
    IF /\ Len(profiles) >= 1
       /\ profiles[1].mashup = "file" /\ profiles[1].qm = "good"
       /\ profiles[1].platform = "good" /\ profiles[1].staging = "none"
       /\ profiles[1].pqt = "none"
    THEN {FALSE, TRUE}
    ELSE {FALSE}

InitConvert ==
    /\ output_path \in {SrcDir, OutDir}
    /\ \/ \E n \in 0..MaxItems : \E profiles \in [1..n -> ItemProfiles] :
          \E prior \in PriorOptions(profiles) :
            /\ fs = IF prior
                    THEN WorkspaceFiles(n, profiles) @@ PriorFiles(output_path)
                    ELSE WorkspaceFiles(n, profiles)
            /\ dirs = IF prior
                      THEN WorkspaceDirs(profiles) \cup PriorDirs(output_path)
                      ELSE WorkspaceDirs(profiles)
            /\ env = [i \in { ItemDirName(k) : k \in 1..n } |->
                        LET k == CHOOSE k \in 1..n : ItemDirName(k) = i
                        IN  [zip_error |-> profiles[k].pqt = "denied",
                             locks |-> profiles[k].locks,
                             move_error |-> profiles[k].move_error]]
       \/ /\ fs = <<>>
          /\ dirs = {<<>>}
          /\ env = <<>>
    /\ cpc = "start"
    /\ copied_items = <<>>
    /\ ci = 0
    /\ success_count = 0
    /\ pqt_success_count = 0
    /\ moved_items = <<>>
    /\ failed_moves = <<>>
    /\ original_mappings = <<>>
    /\ report = NoReport
    /\ pc = "unused"
    /\ json_files = <<>>
    /\ idx = 0
    /\ error_count = 0
    /\ run = 0
    /\ history = <<>>
    /\ dpc = "unused"
    /\ definition = <<>>
    /\ decoded_parts = <<>>
    /\ log = <<>>
    /\ MainIdle

cidle == <<dvars, brest, mvars>>

Return(value) ==
    /\ cpc' = "done"
    /\ report' = [report EXCEPT !.returned = value]

\* lines 251-281: the existence check, find_dataflow_items, read_item_mapping
\* and copy_dataflow_items
StartConvert ==
    /\ cpc = "start"
    /\ LET workspace_path == SrcDir
           dataflow_items == find_dataflow_items(fs, dirs, workspace_path)
           out_dirs       == dirs \cup { SubSeq(output_path, 1, k) : k \in 0..Len(output_path) }
           copied         == CopyItems(dataflow_items, output_path, fs, out_dirs)
       IN  IF workspace_path \notin dirs \/ dataflow_items = <<>>
           THEN /\ Return(FALSE)
                /\ UNCHANGED <<fs, dirs, copied_items, ci, original_mappings, success_count>>
           ELSE /\ original_mappings' = read_item_mapping(fs, workspace_path)
                /\ IF output_path = Parent(dataflow_items[1])
                   THEN /\ copied_items' = dataflow_items
                        /\ UNCHANGED <<fs, dirs>>
                   ELSE /\ copied_items' = [i \in DOMAIN dataflow_items |->
                                               Append(output_path, Last(dataflow_items[i]))]
                        /\ fs' = copied.fs
                        /\ dirs' = copied.dirs
                /\ success_count' = 0
                /\ ci' = 1
                /\ cpc' = "structure"
                /\ UNCHANGED report
    /\ UNCHANGED <<output_path, pqt_success_count, moved_items, failed_moves, env, cidle>>

\* lines 284-293: one turn of the loop over create_pqtzip_structure
CreateStructure ==
    /\ cpc = "structure"
    /\ LET item_dir == copied_items[ci]
           r        == create_pqtzip_structure(item_dir, fs, dirs)
           last     == ci = Len(copied_items)
       IN  /\ fs' = r.fs
           /\ dirs' = r.dirs
           /\ IF r.raised
              THEN /\ cpc' = "raised"
                   /\ report' = [report EXCEPT !.raised = TRUE]
                   /\ UNCHANGED <<success_count, ci, pqt_success_count>>
              ELSE /\ success_count' = IF r.ok THEN success_count + 1 ELSE success_count
                   /\ report' = IF r.ok
                                THEN [report EXCEPT !.structure_ok = @ \cup {Last(item_dir)}]
                                ELSE report
                   /\ ci' = IF last THEN 1 ELSE ci + 1
                   /\ cpc' = IF last THEN "archive" ELSE "structure"
                   /\ pqt_success_count' = 0
    /\ UNCHANGED <<output_path, copied_items, moved_items, failed_moves,
                   original_mappings, env, cidle>>

\* lines 296-313: one turn of the loop over create_pqt_archive; after the last
\* turn, with_dataflows_path.mkdir(exist_ok=True)
CreateArchive ==
    /\ cpc = "archive"
    /\ LET item_dir == copied_items[ci]
           r        == create_pqt_archive(item_dir, fs, dirs, env[Last(item_dir)].zip_error)
           last     == ci = Len(copied_items)
       IN  /\ fs' = r.fs
           /\ pqt_success_count' = IF r.ok THEN pqt_success_count + 1 ELSE pqt_success_count
           /\ report' = IF r.ok
                        THEN [report EXCEPT !.archive_ok = @ \cup {Last(item_dir)}]
                        ELSE report
           /\ ci' = IF last THEN 1 ELSE ci + 1
           /\ cpc' = IF last THEN "move" ELSE "archive"
           /\ dirs' = IF last THEN dirs \cup {Append(output_path, WithDataflows)} ELSE dirs
    /\ moved_items' = <<>>
    /\ failed_moves' = <<>>
    /\ UNCHANGED <<output_path, copied_items, success_count, original_mappings, env, cidle>>

\* lines 315-349: one turn of the move loop, with its retries
MoveItem ==
    /\ cpc = "move"
    /\ LET item_dir == copied_items[ci]
           pqt_file == Append(item_dir, PqtName(Last(item_dir)))
           dest_dir == Append(Append(output_path, WithDataflows), Last(item_dir))
           r        == TryMove(0, retry_delay, env[Last(item_dir)], <<>>)
           \* if dest_dir.exists(): shutil.rmtree(dest_dir)
           f1       == RemoveTreeFiles(RemoveFile(fs, dest_dir), dest_dir)
           d1       == RemoveTreeDirs(dirs, dest_dir)
           last     == ci = Len(copied_items)
       IN  /\ IF ~Exists(fs, dirs, pqt_file)
              THEN UNCHANGED <<fs, dirs, moved_items, failed_moves, report>>
              ELSE /\ report' = [report EXCEPT !.moves = Append(@,
                                   [item |-> Last(item_dir), moved |-> r.moved,
                                    attempts |-> r.attempts, slept |-> r.slept,
                                    before |-> fs])]
                   /\ IF r.moved
                      THEN \* shutil.move(str(item_dir), str(dest_dir))
                           /\ fs' = RemoveTreeFiles(CopyTreeFiles(f1, item_dir, dest_dir),
                                                    item_dir)
                           /\ dirs' = RemoveTreeDirs(CopyTreeDirs(d1, item_dir, dest_dir),
                                                     item_dir)
                           /\ moved_items' = Append(moved_items, dest_dir)
                           /\ UNCHANGED failed_moves
                      ELSE /\ fs' = f1
                           /\ dirs' = d1
                           /\ failed_moves' = Append(failed_moves, Last(item_dir))
                           /\ UNCHANGED moved_items
           /\ ci' = IF last THEN 1 ELSE ci + 1
           /\ cpc' = IF last THEN "mappings" ELSE "move"
    /\ UNCHANGED <<output_path, copied_items, success_count, pqt_success_count,
                   original_mappings, env, cidle>>

\* lines 351-381: the two item_mapping.txt files and the return value
WriteMappings ==
    /\ cpc = "mappings"
    /\ LET with_dataflows_path == Append(output_path, WithDataflows)
           StillThere(item)    == Exists(fs, dirs, item)
           remaining_items     == SelectSeq(copied_items, StillThere)
       IN  \E pick \in Picks(fs, moved_items \o remaining_items) :
              LET f1 == IF moved_items # <<>>
                        THEN create_output_mapping(moved_items, original_mappings,
                                                   with_dataflows_path, fs, dirs, pick)
                        ELSE fs
                  f2 == IF remaining_items # <<>>
                        THEN create_output_mapping(remaining_items, original_mappings,
                                                   output_path, f1, dirs, pick)
                        ELSE f1
              IN  fs' = f2
    /\ Return(success_count > 0 /\ pqt_success_count > 0)
    /\ UNCHANGED <<dirs, output_path, copied_items, ci, success_count, pqt_success_count,
                   moved_items, failed_moves, original_mappings, env, cidle>>

NextConvert ==
    StartConvert \/ CreateStructure \/ CreateArchive \/ MoveItem \/ WriteMappings

SpecConvert == InitConvert /\ [][NextConvert]_vars

(***************************************************************************)
(* Claims about the templates process_workspace builds.                    *)
(***************************************************************************)
\* where the item directory of this name is after, or during, the run
ItemAt(name) ==
    IF Append(output_path, name) \in dirs
    THEN Append(output_path, name)
    ELSE Append(Append(output_path, WithDataflows), name)

\* the member names the item's own files call for
ExpectedMembers(item_dir) ==
    {MashupDocumentPq, ContentTypesXml}
    \cup (IF Exists(fs, dirs, Append(item_dir, QueryMetadataJson))
          THEN {MashupMetadataJson} ELSE {})
    \cup (IF Exists(fs, dirs, Append(item_dir, DotPlatform))
          THEN {MetadataJson} ELSE {})

BothLoopsDone == cpc \in {"move", "mappings", "done"}

\* C9: every archive that create_pqt_archive produced holds exactly
\* MashupDocument.pq and [Content_Types].xml, MashupMetadata.json iff the item
\* has queryMetadata.json, Metadata.json iff the item has .platform, and no
\* other member, also when the item already had a staging directory.
C9_ExactMemberSet ==
    BothLoopsDone =>
        \A name \in report.archive_ok :
            LET item_dir == ItemAt(name)
                pqt_file == Append(item_dir, PqtName(name))
            IN  /\ IsFile(fs, pqt_file)
                /\ fs[pqt_file].kind = "zip"
                /\ DOMAIN fs[pqt_file].members = ExpectedMembers(item_dir)

\* C10: an item with a failed assembly step is marked failed as a whole: it
\* is not counted as an archive success and is not placed in with_dataflows,
\* no exception escapes process_workspace, and so every item counted in
\* 'archive created' is also counted in 'structure created'.
C10_FailedItemIsFailedWhole ==
    /\ ~report.raised
    /\ BothLoopsDone =>
          /\ report.archive_ok \subseteq report.structure_ok
          /\ pqt_success_count <= success_count
          /\ \A i \in DOMAIN copied_items :
                LET name == Last(copied_items[i])
                IN  name \notin (report.structure_ok \cap report.archive_ok)
                    => Append(Append(output_path, WithDataflows), name) \notin dirs

(***************************************************************************)
(* Claims about where process_workspace leaves the items.                  *)
(***************************************************************************)
ItemNames == DOMAIN env

MainDir(name) == Append(output_path, name)

\* dest_dir = with_dataflows_path / item_dir.name
DestDir(name) == Append(Append(output_path, WithDataflows), name)

MainMapping == ContentAt(fs, Append(output_path, ItemMapping))

WithDataflowsMapping == ContentAt(fs, Append(Append(output_path, WithDataflows), ItemMapping))

\* the mapping file has a line for this item name
Listed(c, name) == \E i \in DOMAIN AllLines(c) : AllLines(c)[i].item = name

HasArchive(name) ==
    \/ Exists(fs, dirs, Append(MainDir(name), PqtName(name)))
    \/ Exists(fs, dirs, Append(DestDir(name), PqtName(name)))

\* an item_ directory of the workspace without mashup.pq
LacksMashup(name) ==
    /\ Append(SrcDir, name) \in dirs
    /\ ~Exists(fs, dirs, Append(Append(SrcDir, name), MashupPq))

\* C11: after a run that found candidates the items are partitioned: an item
\* with an archive is in with_dataflows/ and listed in the with_dataflows
\* mapping only; an item_ directory without mashup.pq is not in
\* with_dataflows/, is in the main output directory and is listed in the main
\* mapping only.
C11_Partitioned ==
    (cpc = "done" /\ copied_items # <<>>) =>
        \A name \in ItemNames :
            /\ HasArchive(name) =>
                  /\ DestDir(name) \in dirs
                  /\ MainDir(name) \notin dirs
                  /\ Listed(WithDataflowsMapping, name)
                  /\ ~Listed(MainMapping, name)
            /\ LacksMashup(name) =>
                  /\ DestDir(name) \notin dirs
                  /\ MainDir(name) \in dirs
                  /\ Listed(MainMapping, name)
                  /\ ~Listed(WithDataflowsMapping, name)

(***************************************************************************)
(* process_dataflows.py: main()                                            *)
(***************************************************************************)
ExitAlwaysZero(overall) == 0

\* sys.exit(0) if overall_success else sys.exit(1)
ExitStatus(overall) == IF overall THEN 0 ELSE 1

\* the source files main is run on with --decode and --all
MainContents ==
    { TextFile("not json"),
      Document(<< TextPart(<<"mashup", ".pq">>), JsonPart(<<"queryMetadata", ".json">>) >>),
      Document(<< [path |-> <<"mashup", ".pq">>, payload |-> "abc",
                   payloadType |-> "InlineBase64"],
                  [path |-> <<".platform">>, payload |-> "eyJhIjoxfQ==",
                   payloadType |-> "InlineJson"] >>) }

\* the decoded items main is run on with --convert
MainProfiles ==
    { ItemProfile("file", "good", "good", "none", "none", 0, FALSE),
      ItemProfile("file", "none", "bad", "none", "none", 0, FALSE),
      ItemProfile("file", "good", "good", "none", "denied", 0, FALSE),
      ItemProfile("file", "good", "good", "file", "none", 0, FALSE),
      ItemProfile("none", "none", "good", "none", "none", 0, FALSE) }

InitMain ==
    /\ mode \in {"decode", "convert", "all"}
    /\ \/ /\ fs = <<>>
          /\ dirs = {<<>>}
          /\ env = <<>>
          /\ output_path = SrcDir
       \/ /\ mode \in {"decode", "all"}
          /\ dirs = {<<>>, SrcDir}
          /\ \E names \in SUBSET NamePool :
                /\ Cardinality(names) <= MaxFiles
                /\ \E c \in [names -> MainContents] :
                      fs = [loc \in {Append(SrcDir, n) : n \in names} |-> c[Last(loc)]]
          /\ \E zip_error \in BOOLEAN :
                env = [i \in { ItemDirName(k) : k \in 1..MaxFiles } |->
                          [zip_error |-> zip_error, locks |-> 0, move_error |-> FALSE]]
          /\ output_path \in IF mode = "all" THEN {SrcDir, OutDir} ELSE {SrcDir}
       \/ /\ mode = "convert"
          /\ \E n \in 0..MaxItems : \E profiles \in [1..n -> MainProfiles] :
                /\ fs = WorkspaceFiles(n, profiles)
                /\ dirs = WorkspaceDirs(profiles)
                /\ env = [i \in { ItemDirName(k) : k \in 1..n } |->
                            LET k == CHOOSE k \in 1..n : ItemDirName(k) = i
                            IN  [zip_error |-> profiles[k].pqt = "denied",
                                 locks |-> profiles[k].locks,
                                 move_error |-> profiles[k].move_error]]
          /\ output_path \in {SrcDir, OutDir}
    /\ mpc = "start"
    /\ overall_success = TRUE
    /\ exit_status = None
    /\ cpc = "unused"
    /\ copied_items = <<>>
    /\ ci = 0
    /\ success_count = 0
    /\ pqt_success_count = 0
    /\ moved_items = <<>>
    /\ failed_moves = <<>>
    /\ original_mappings = <<>>
    /\ report = NoReport
    /\ pc = "unused"
    /\ json_files = <<>>
    /\ idx = 0
    /\ error_count = 0
    /\ run = 0
    /\ history = <<>>
    /\ dpc = "unused"
    /\ definition = <<>>
    /\ decoded_parts = <<>>
    /\ log = <<>>

Exit(status) ==
    /\ mpc' = "exited"
    /\ exit_status' = status

\* lines 95-103: the source directory check
MainStart ==
    /\ mpc = "start"
    /\ IF SrcDir \notin dirs
       THEN /\ Exit(1)
            /\ UNCHANGED <<pc, cpc>>
       ELSE IF mode \in {"decode", "all"}
       THEN /\ mpc' = "decode"
            /\ pc' = "idle"
            /\ UNCHANGED <<cpc, exit_status>>
       ELSE /\ mpc' = "convert"
            /\ cpc' = "start"
            /\ UNCHANGED <<pc, exit_status>>
    /\ UNCHANGED <<fs, dirs, dvars, json_files, idx, error_count, run, history,
                   success_count, output_path, copied_items, ci, pqt_success_count,
                   moved_items, failed_moves, original_mappings, env, report,
                   mode, overall_success>>

\* line 110: decode_success = batch_decode_directory(str(source_path))
MainDecode ==
    /\ mpc = "decode"
    /\ \/ run = 0 /\ StartRun
       \/ ProcessFile
       \/ EndRun

\* lines 112-119 and, with --decode, the summary of lines 136-157
AfterDecode ==
    /\ mpc = "decode"
    /\ pc = "done"
    /\ run = 1
    /\ LET decode_success == history[run].returned
       IN  /\ overall_success' = decode_success
           /\ IF ~decode_success /\ mode = "all"
              THEN Exit(1) /\ UNCHANGED cpc
              ELSE IF mode = "all"
              THEN mpc' = "convert" /\ cpc' = "start" /\ UNCHANGED exit_status
              ELSE Exit(ExitStatus(decode_success)) /\ UNCHANGED cpc
    /\ UNCHANGED <<fs, dirs, dvars, bvars, output_path, copied_items, ci, pqt_success_count,
                   moved_items, failed_moves, original_mappings, env, report, mode>>

\* line 130: convert_success = process_workspace(convert_source, convert_output)
MainConvert ==
    /\ mpc = "convert"
    /\ NextConvert

\* lines 132-157: the summary; an exception that left process_workspace ends
\* the interpreter with status 1
AfterConvert ==
    /\ mpc = "convert"
    /\ cpc \in {"done", "raised"}
    /\ LET convert_success == cpc = "done" /\ report.returned
           overall         == overall_success /\ convert_success
       IN  /\ overall_success' = overall
           /\ Exit(IF cpc = "raised" THEN 1 ELSE ExitStatus(overall))
    /\ UNCHANGED <<fs, dirs, dvars, bvars, cvars, mode>>

NextMain == MainStart \/ MainDecode \/ AfterDecode \/ MainConvert \/ AfterConvert

SpecMain == InitMain /\ [][NextMain]_vars

(***************************************************************************)
(* Claims about main (checked under SpecMain).                             *)
(***************************************************************************)
DecodeRequested == mode \in {"decode", "all"}

ConvertRequested == mode \in {"convert", "all"}

\* at least one file was decoded
DecodedSome == run >= 1 /\ \E o \in Range(history[1].outcomes) : o.ok

\* at least one structure and at least one archive were created
ConvertedSome == report.structure_ok # {} /\ report.archive_ok # {}

\* C12: the exit status is 0 exactly when every requested stage had a unit
\* of work succeed (a decoded file; a structure and an archive); with --all
\* the convert stage runs only after a successful decode stage; a missing
\* source directory gives a non-zero status and nothing is processed.
C12_ExitStatus ==
    /\ (mode = "all" /\ cpc # "unused") => DecodedSome
    /\ mpc = "exited" =>
          /\ exit_status \in {0, 1}
          /\ exit_status = 0 <=>
                /\ DecodeRequested => DecodedSome
                /\ ConvertRequested => ConvertedSome
          /\ SrcDir \notin dirs =>
                /\ exit_status = 1
                /\ run = 0
                /\ cpc = "unused"
                /\ DOMAIN fs = {}
                /\ dirs = {<<>>}

C12_Witness ==
    /\ mpc = "exited"
    /\ mode = "all"
    /\ exit_status = 0
    /\ error_count > 0
    /\ Len(moved_items) > 0

(***************************************************************************)
(* The two filename parsers, applied to one source file: the line the       *)
(* decode stage records for it and the line the package stage regenerates   *)
(* for the item directory that holds its copy.                              *)
(***************************************************************************)
NameTokens == { <<"WS">>, <<"w1">>, <<"x", ".json">> }

\* '__'.join(tokens)
RECURSIVE JoinTokens(_)
JoinTokens(tokens) ==
    IF Len(tokens) = 1 THEN tokens[1]
    ELSE tokens[1] \o <<"__">> \o JoinTokens(Tail(tokens))

\* the *.json names batch_decode_directory can meet
FileNames ==
    { Append(JoinTokens(tokens), ".json") :
          tokens \in UNION { [1..n -> NameTokens] : n \in 1..MaxTokens } }

NameItemDir == Append(SrcDir, ItemDirName(1))

InitNames ==
    /\ \E name \in FileNames :
          /\ json_files = <<name>>
          /\ fs = (Append(NameItemDir, name) :> Document(<<>>))
    /\ dirs = {<<>>, SrcDir, NameItemDir, OutDir}
    /\ pc = "record"
    /\ idx = 1
    /\ success_count = 0
    /\ error_count = 0
    /\ run = 0
    /\ history = <<>>
    /\ dpc = "unused"
    /\ definition = <<>>
    /\ decoded_parts = <<>>
    /\ log = <<>>
    /\ ConvertIdle
    /\ MainIdle

\* batch_decode_directory, lines 176-185: the mapping line of the decode stage
RecordName ==
    /\ pc = "record"
    /\ fs' = AppendLine(fs, Append(SrcDir, ItemMapping), MappingLine(idx, json_files[idx]))
    /\ pc' = "regenerate"
    /\ UNCHANGED <<dirs, json_files, idx, success_count, error_count, run, history,
                   dvars, cvars, mvars>>

\* create_output_mapping for the item, into a separate output directory
RegenerateName ==
    /\ pc = "regenerate"
    /\ \E pick \in Picks(fs, <<NameItemDir>>) :
          fs' = create_output_mapping(<<NameItemDir>>, read_item_mapping(fs, SrcDir),
                                      OutDir, fs, dirs, pick)
    /\ pc' = "regenerated"
    /\ UNCHANGED <<dirs, json_files, idx, success_count, error_count, run, history,
                   dvars, cvars, mvars>>

NextNames == RecordName \/ RegenerateName

SpecNames == InitNames /\ [][NextNames]_vars

\* the four identity fields of a mapping line, None for a legacy line
Identity(line) ==
    IF line.form = "rich"
    THEN <<line.workspace_id, line.item_id, line.name, line.type>>
    ELSE None

\* C13: both stages parse a source file name by one rule: the tokens 1..4 of
\* the name without its .json extension, split on '__', exactly when there
\* are at least 5 tokens and token 0 is 'WS', no metadata otherwise; the
\* decode-stage line and the regenerated line carry the same four fields.
C13_OneParsingRule ==
    pc = "regenerated" =>
        LET name      == json_files[1]
            tokens    == SplitOn(SubSeq(name, 1, Len(name) - 1), "__")
            decoded   == AllLines(Mapping)[1]
            packaged  == AllLines(ContentAt(fs, Append(OutDir, ItemMapping)))[1]
            expected  == IF Len(tokens) >= 5 /\ tokens[1] = <<"WS">>
                         THEN <<tokens[2], tokens[3], tokens[4], tokens[5]>>
                         ELSE None
        IN  /\ Identity(decoded) = expected
            /\ Identity(packaged) = expected
            /\ Identity(decoded) = Identity(packaged)

(***************************************************************************)
(* Claims about the move into with_dataflows (checked under SpecConvert).  *)
(***************************************************************************)
MovesDone == cpc \in {"mappings", "done"}

\* the record of the move loop for this item
MoveOf(name) == CHOOSE m \in Range(report.moves) : m.item = name

\* every file of before is still there, where it was or where the move took it
NothingLost(before, name, moved) ==
    \A loc \in DOMAIN before :
        \/ loc \in DOMAIN fs /\ fs[loc] = before[loc]
        \/ /\ moved
           /\ Under(loc, MainDir(name))
           /\ LET there == Rebase(loc, MainDir(name), DestDir(name))
              IN  there \in DOMAIN fs /\ fs[there] = before[loc]

\* C14: an item with an archive is moved in at most 3 attempts, sleeping 0.5
\* then 1.0 between them, retrying on a permission error only; after a move
\* that did not succeed the item is still in the main output directory, is in
\* failed_moves and in the main mapping file, and nothing that existed
\* before the attempt is lost; the item ends in exactly one of the two places.
C14_BoundedRetryKeepsData ==
    /\ MovesDone =>
          \A name \in ItemNames :
              HasArchive(name) =>
                  /\ \E m \in Range(report.moves) : m.item = name
                  /\ LET m == MoveOf(name)
                     IN  /\ m.attempts \in 1..max_retries
                         /\ Len(m.slept) = m.attempts - 1
                         /\ \A i \in DOMAIN m.slept :
                               m.slept[i] = IF i = 1 THEN retry_delay
                                            ELSE 2 * m.slept[i - 1]
                         /\ env[name].move_error => m.attempts = 1 /\ ~m.moved
                         /\ m.attempts > 1 => env[name].locks >= m.attempts - 1
                         /\ (MainDir(name) \in dirs) # (DestDir(name) \in dirs)
                         /\ ~m.moved =>
                               /\ MainDir(name) \in dirs
                               /\ name \in Range(failed_moves)
                               /\ cpc = "done" => Listed(MainMapping, name)
    /\ (cpc \in {"move", "mappings"} /\ report.moves # <<>>) =>
          LET m == Last(report.moves)
          IN  ~m.moved => NothingLost(m.before, m.item, FALSE)

(***************************************************************************)
(* batch_decode_directory run again and again over a source directory that *)
(* receives new exports between the runs.                                  *)
(***************************************************************************)
AddedContents ==
    { TextFile("not json"),
      Document(<< TextPart(<<"mashup", ".pq">>), JsonPart(<<"queryMetadata", ".json">>) >>) }

\* between two runs somebody puts a new export into the source directory
AddSourceFile ==
    /\ pc = "done"
    /\ run < MaxRuns
    /\ SrcDir \in dirs
    /\ Cardinality(GlobJson(fs, dirs, SrcDir)) < MaxFiles
    /\ \E name \in NamePool \ GlobJson(fs, dirs, SrcDir) : \E content \in AddedContents :
          fs' = WriteFile(fs, Append(SrcDir, name), content)
    /\ UNCHANGED <<dirs, dvars, bvars, cvars, mvars>>

NextRerun == NextBatch \/ AddSourceFile

SpecRerun == InitBatch /\ [][NextRerun]_vars

\* the files decoded with success, over all runs, as (run, outcome) pairs
Decoded ==
    { <<r, o>> : r \in 1..run, o \in UNION { Range(history[k].outcomes) : k \in 1..run } } \cap
    { <<r, o>> \in (1..run) \X UNION { Range(history[k].outcomes) : k \in 1..run } :
          o \in Range(history[r].outcomes) /\ o.ok }

\* no part path of any run left its item directory
NoEscapes == \A r \in 1..run : history[r].escaped = {}

\* C15: over any sequence of runs (here with part paths that stay inside the
\* item directories) an item_NNN directory receives the decoded output of at
\* most one source file, and item_mapping.txt records each item_NNN name for
\* at most one source file.
C15_ItemDirectoryUsedOnce ==
    NoEscapes =>
        /\ \A a, b \in Decoded :
              a[2].item = b[2].item => a[2].file = b[2].file
        /\ \A i, j \in DOMAIN AllLines(Mapping) :
              AllLines(Mapping)[i].item = AllLines(Mapping)[j].item
                  => AllLines(Mapping)[i].file = AllLines(Mapping)[j].file

====
